---- MODULE Spec2Model ----
(***************************************************************************)
(* StdObjectStore (src/lib.rs, module `standard`): the filesystem-backed   *)
(* implementation of the PersistentStorage trait.  The store keeps no      *)
(* state of its own besides `root`; its state is the root directory: one   *)
(* regular file per object, named by the decimal form of the identifier.   *)
(*                                                                         *)
(* The directory is modelled as a map from entry names to file contents,   *)
(* the Io handles as open file descriptions (file, access flags,           *)
(* position).  What a handle still reaches once its file was removed is    *)
(* defined by the medium, not by the store: such a handle stays open, a    *)
(* read through it returns any bytes, a write through it reaches no        *)
(* object.  The calls                                                      *)
(* the code makes (File::create, fs::remove_file, OpenOptions::open,       *)
(* fs::metadata, File::set_len) are modelled by what they are documented   *)
(* to do.  A medium fault (quota, I/O error, no descriptor) is an input of *)
(* every call that reaches the medium: the call then fails and changes     *)
(* nothing.  A name that is not in the directory is reported by the lookup *)
(* itself (NotFound).                                                      *)
(***************************************************************************)
EXTENDS Integers, Sequences, FiniteSets, TLC

\* ---------------------------------------------------------------- bounds
\* Longest object (in bytes) the model lets a write or truncate produce.
MaxLen == 2

\* Identifiers the operations are called with (type Id = u64).
ObjIds == {2, 12}

\* Byte values written through handles; 0 is the fill byte of set_len.
Bytes == {65}

\* Descriptor slots available for outstanding Io handles.
HandleSlots == {1}

VARIABLES
    files,    \* root directory: entry name -> content of the file
    handles,  \* descriptor slot -> open file description
    live,     \* identifiers created and not destroyed since (history)
    res       \* the last call and what it returned

vars == <<files, handles, live, res>>

\* ------------------------------------------------------------- helpers
Min(a, b) == IF a < b THEN a ELSE b

SeqsUpTo(S, n) == UNION {[1..k -> S] : k \in 0..n}

\* An open file description: the file it refers to (the entry `path`, while
\* the file is linked), the access flags it was opened with, the position,
\* and the constructor that returned the handle.
ClosedHandle == [open |-> FALSE, by |-> "none", linked |-> FALSE,
                 path |-> <<>>, read |-> FALSE, write |-> FALSE, pos |-> 0]

NoRes == [op |-> "none", objid |-> 0, live |-> FALSE, kind |-> "Ok",
          n |-> 0, off |-> 0, data |-> <<>>]

\* Decimal, if only the last digit were kept.
DecimalLastDigit(n) == <<n % 10>>

\* format!("{objid}"): the decimal digits of a u64, most significant first.
RECURSIVE Decimal(_)
Decimal(n) == IF n < 10 THEN <<n>> ELSE Decimal(n \div 10) \o <<n % 10>>

\* path![self.root / format!("{objid}")]: the entry name under the root.
object_path(objid) == Decimal(objid)

\* OpenOptions, as the builder calls of the code set them.
Opts(r, w, c, t) == [read |-> r, write |-> w, create |-> c, truncate |-> t]

\* OpenFile, if `create` meant create_new: an existing file is an error.
OpenFileCreateNew(fs, path, opts, fault) ==
    IF path \notin DOMAIN fs
    THEN IF ~opts.create
         THEN [kind |-> "NotFound", files |-> fs]
         ELSE IF fault
         THEN [kind |-> "MediumFailure", files |-> fs]
         ELSE [kind |-> "Ok",
               files |-> [p \in DOMAIN fs \cup {path} |->
                             IF p = path THEN <<>> ELSE fs[p]]]
    ELSE IF opts.create
         THEN [kind |-> "AlreadyExists", files |-> fs]
         ELSE IF fault
         THEN [kind |-> "MediumFailure", files |-> fs]
         ELSE [kind |-> "Ok",
               files |-> IF opts.truncate
                         THEN [fs EXCEPT ![path] = <<>>]
                         ELSE fs]

\* OpenFile, if the `truncate` option were ignored.
OpenFileKeep(fs, path, opts, fault) ==
    IF path \notin DOMAIN fs
    THEN IF ~opts.create
         THEN [kind |-> "NotFound", files |-> fs]
         ELSE IF fault
         THEN [kind |-> "MediumFailure", files |-> fs]
         ELSE [kind |-> "Ok",
               files |-> [p \in DOMAIN fs \cup {path} |->
                             IF p = path THEN <<>> ELSE fs[p]]]
    ELSE IF fault
         THEN [kind |-> "MediumFailure", files |-> fs]
         ELSE [kind |-> "Ok", files |-> fs]

\* OpenOptions::open(path): looks the name up; creates the file when absent
\* and `create` is set; empties it when present and `truncate` is set.
OpenFile(fs, path, opts, fault) ==
    IF path \notin DOMAIN fs
    THEN IF ~opts.create
         THEN [kind |-> "NotFound", files |-> fs]
         ELSE IF fault
         THEN [kind |-> "MediumFailure", files |-> fs]
         ELSE [kind |-> "Ok",
               files |-> [p \in DOMAIN fs \cup {path} |->
                             IF p = path THEN <<>> ELSE fs[p]]]
    ELSE IF fault
         THEN [kind |-> "MediumFailure", files |-> fs]
         ELSE [kind |-> "Ok",
               files |-> IF opts.truncate
                         THEN [fs EXCEPT ![path] = <<>>]
                         ELSE fs]

\* SetLen, if it could only cut.
SetLenCutOnly(data, size) ==
    [i \in 1..Min(size, Len(data)) |-> data[i]]

\* File::set_len(size): cuts the file or extends it with zero bytes.
SetLen(data, size) ==
    [i \in 1..size |-> IF i <= Len(data) THEN data[i] ELSE 0]

\* RemoveKind, if removing an absent entry passed silently.
RemoveKindSilent(fs, path, fault) ==
    IF path \in DOMAIN fs /\ fault THEN "MediumFailure" ELSE "Ok"

\* fs::remove_file(path): what the call returns.
RemoveKind(fs, path, fault) ==
    IF path \notin DOMAIN fs THEN "NotFound"
    ELSE IF fault THEN "MediumFailure" ELSE "Ok"

\* fs::remove_file(path): unlinks the entry.
RemoveFile(fs, path) == [p \in DOMAIN fs \ {path} |-> fs[p]]

\* fs::metadata(path).len()
MetadataLen(fs, path) == Len(fs[path])

\* Read::read on a File: up to n bytes from the position.
ReadAt(data, pos, n) ==
    IF pos >= Len(data) THEN <<>>
    ELSE SubSeq(data, pos + 1, Min(pos + n, Len(data)))

\* WriteAt, if a write cut the file at the end of the written bytes.
WriteAtCut(data, pos, b) ==
    [i \in 1..(pos + Len(b)) |->
        IF i > pos THEN b[i - pos]
        ELSE IF i <= Len(data) THEN data[i] ELSE 0]

\* Write::write on a File: the bytes replace what is at the position and
\* extend the file; a position past the end leaves a hole of zero bytes.
WriteAt(data, pos, b) ==
    [i \in 1..(IF pos + Len(b) > Len(data) THEN pos + Len(b) ELSE Len(data)) |->
        IF i > pos /\ i <= pos + Len(b) THEN b[i - pos]
        ELSE IF i <= Len(data) THEN data[i] ELSE 0]

\* Reading a file from a position to its end, one byte per read call,
\* until a read returns no bytes.
RECURSIVE ReadToEnd(_, _)
ReadToEnd(data, pos) ==
    LET chunk == ReadAt(data, pos, 1) IN
    IF chunk = <<>> THEN <<>>
    ELSE chunk \o ReadToEnd(data, pos + Len(chunk))

\* The lowest free descriptor slot.
FreeSlot(hs) ==
    CHOOSE s \in HandleSlots :
        /\ ~hs[s].open
        /\ \A t \in HandleSlots : t < s => hs[t].open

\* What Read::read can return through a handle: the bytes at the position
\* of its file, or, once the file was removed, whatever the medium yields.
ReadResults(fs, h, n) ==
    IF h.linked THEN {ReadAt(fs[h.path], h.pos, n)}
    ELSE SeqsUpTo(Bytes \cup {0}, n)

\* ---------------------------------------------------------------- state
Init ==
    /\ files = <<>>
    /\ handles = [s \in HandleSlots |-> ClosedHandle]
    /\ live = {}
    /\ res = NoRes

\* ----------------------------------------------------------- operations
\* create, if it refused an object that a handle holds open.
create_guarded(objid, fault) ==
    LET path == object_path(objid)
        busy == \E s \in HandleSlots :
                    handles[s].open /\ handles[s].linked /\ handles[s].path = path
        o == IF busy THEN [kind |-> "AlreadyExists", files |-> files]
             ELSE OpenFile(files, path, Opts(FALSE, TRUE, TRUE, TRUE), fault) IN
    /\ files' = o.files
    /\ live' = IF o.kind = "Ok" THEN live \cup {objid} ELSE live
    /\ res' = [NoRes EXCEPT !.op = "create", !.objid = objid,
                            !.live = (objid \in live), !.kind = o.kind]
    /\ UNCHANGED handles

\* fn create: File::create(path)?; Ok(())
\* File::create is OpenOptions write+create+truncate.
create(objid, fault) ==
    LET o == OpenFile(files, object_path(objid),
                      Opts(FALSE, TRUE, TRUE, TRUE), fault) IN
    /\ files' = o.files
    /\ live' = IF o.kind = "Ok" THEN live \cup {objid} ELSE live
    /\ res' = [NoRes EXCEPT !.op = "create", !.objid = objid,
                            !.live = (objid \in live), !.kind = o.kind]
    /\ UNCHANGED handles

\* fn destroy: fs::remove_file(path)
\* The handles that have the removed file open stay open, without a name.
destroy(objid, fault) ==
    LET path == object_path(objid)
        kind == RemoveKind(files, path, fault)
        held(s) == handles[s].open /\ handles[s].linked
                        /\ handles[s].path = path IN
    /\ files' = IF kind = "Ok" THEN RemoveFile(files, path) ELSE files
    /\ handles' = IF kind = "Ok"
                  THEN [s \in HandleSlots |->
                          IF held(s)
                          THEN [handles[s] EXCEPT !.linked = FALSE,
                                                  !.path = <<>>, !.pos = 0]
                          ELSE handles[s]]
                  ELSE handles
    /\ live' = IF kind = "Ok" THEN live \ {objid} ELSE live
    /\ res' = [NoRes EXCEPT !.op = "destroy", !.objid = objid,
                            !.live = (objid \in live), !.kind = kind]

\* The three handle constructors: File::options()...open(path)?, wrapped.
OpenHandle(op, objid, opts, fault) ==
    LET path == object_path(objid)
        o == OpenFile(files, path, opts, fault)
        s == FreeSlot(handles) IN
    /\ \E t \in HandleSlots : ~handles[t].open
    /\ files' = o.files
    /\ handles' = IF o.kind = "Ok"
                  THEN [handles EXCEPT ![s] =
                           [open |-> TRUE, by |-> op, linked |-> TRUE,
                            path |-> path, read |-> opts.read,
                            write |-> opts.write, pos |-> 0]]
                  ELSE handles
    /\ res' = [NoRes EXCEPT !.op = op, !.objid = objid,
                            !.live = (objid \in live), !.kind = o.kind]
    /\ UNCHANGED live

\* read_handle, if it asked for write access too.
read_handle_rw(objid, fault) ==
    OpenHandle("read_handle", objid, Opts(TRUE, TRUE, FALSE, FALSE), fault)

\* write_handle, if it opened with create(true).
write_handle_create(objid, fault) ==
    OpenHandle("write_handle", objid, Opts(FALSE, TRUE, TRUE, FALSE), fault)

read_handle(objid, fault) ==
    OpenHandle("read_handle", objid, Opts(TRUE, FALSE, FALSE, FALSE), fault)

write_handle(objid, fault) ==
    OpenHandle("write_handle", objid, Opts(FALSE, TRUE, FALSE, FALSE), fault)

rw_handle(objid, fault) ==
    OpenHandle("rw_handle", objid, Opts(TRUE, TRUE, FALSE, FALSE), fault)

\* fn size: Ok(fs::metadata(path)?.len())
size(objid, fault) ==
    LET path == object_path(objid)
        kind == IF path \notin DOMAIN files THEN "NotFound"
                ELSE IF fault THEN "MediumFailure" ELSE "Ok" IN
    /\ res' = [NoRes EXCEPT !.op = "size", !.objid = objid,
                            !.live = (objid \in live), !.kind = kind,
                            !.n = IF kind = "Ok"
                                  THEN MetadataLen(files, path) ELSE 0]
    /\ UNCHANGED <<files, handles, live>>

\* truncate, if it opened the file with truncate(true) before set_len.
truncate_reopen(objid, sz, fault) ==
    LET path == object_path(objid)
        o == OpenFile(files, path, Opts(FALSE, TRUE, FALSE, TRUE),
                      fault = "open")
        kind == IF o.kind # "Ok" THEN o.kind
                ELSE IF fault = "set_len" THEN "MediumFailure" ELSE "Ok" IN
    /\ files' = IF kind = "Ok"
                THEN [o.files EXCEPT ![path] = SetLen(@, sz)]
                ELSE o.files
    /\ res' = [NoRes EXCEPT !.op = "truncate", !.objid = objid,
                            !.live = (objid \in live), !.kind = kind,
                            !.n = sz]
    /\ UNCHANGED <<handles, live>>

\* fn truncate: File::options().write(true).open(path)?.set_len(size)
\* The file is opened, resized and closed again; either step can fail.
truncate(objid, sz, fault) ==
    LET path == object_path(objid)
        o == OpenFile(files, path, Opts(FALSE, TRUE, FALSE, FALSE),
                      fault = "open")
        kind == IF o.kind # "Ok" THEN o.kind
                ELSE IF fault = "set_len" THEN "MediumFailure" ELSE "Ok" IN
    /\ files' = IF kind = "Ok"
                THEN [o.files EXCEPT ![path] = SetLen(@, sz)]
                ELSE o.files
    /\ res' = [NoRes EXCEPT !.op = "truncate", !.objid = objid,
                            !.live = (objid \in live), !.kind = kind,
                            !.n = sz]
    /\ UNCHANGED <<handles, live>>

\* Read::read through an outstanding handle, with a buffer of n bytes.
\* A descriptor opened without read access refuses the read.
Read(s, n) ==
    LET h == handles[s] IN
    /\ h.open
    /\ IF h.read
       THEN \E got \in ReadResults(files, h, n) :
               /\ handles' = [handles EXCEPT ![s].pos =
                                 IF h.linked THEN @ + Len(got) ELSE @]
               /\ res' = [NoRes EXCEPT !.op = "read", !.n = s, !.data = got]
       ELSE /\ handles' = handles
            /\ res' = [NoRes EXCEPT !.op = "read", !.n = s,
                                    !.kind = "BadDescriptor"]
    /\ UNCHANGED <<files, live>>

\* Write::write through an outstanding handle.
\* A descriptor opened without write access refuses the write.
Write(s, b) ==
    LET h == handles[s] IN
    /\ h.open
    /\ h.pos + Len(b) <= MaxLen
    /\ IF h.write
       THEN /\ files' = IF h.linked
                        THEN [files EXCEPT ![h.path] = WriteAt(@, h.pos, b)]
                        ELSE files
            /\ handles' = [handles EXCEPT ![s].pos =
                              IF h.linked THEN @ + Len(b) ELSE @]
            /\ res' = [NoRes EXCEPT !.op = "write", !.n = s, !.off = h.pos,
                                    !.data = b]
       ELSE /\ UNCHANGED <<files, handles>>
            /\ res' = [NoRes EXCEPT !.op = "write", !.n = s, !.off = h.pos,
                                    !.data = b, !.kind = "BadDescriptor"]
    /\ UNCHANGED live

\* Dropping a handle closes its descriptor.
Release(s) ==
    /\ handles[s].open
    /\ handles' = [handles EXCEPT ![s] = ClosedHandle]
    /\ res' = [NoRes EXCEPT !.op = "release", !.n = s]
    /\ UNCHANGED <<files, live>>

Next ==
    \/ \E id \in ObjIds, f \in BOOLEAN : create(id, f)
    \/ \E id \in ObjIds, f \in BOOLEAN : destroy(id, f)
    \/ \E id \in ObjIds, f \in BOOLEAN : read_handle(id, f)
    \/ \E id \in ObjIds, f \in BOOLEAN : write_handle(id, f)
    \/ \E id \in ObjIds, f \in BOOLEAN : rw_handle(id, f)
    \/ \E id \in ObjIds, f \in BOOLEAN : size(id, f)
    \/ \E id \in ObjIds, n \in 0..MaxLen, f \in {"none", "open", "set_len"} :
          truncate(id, n, f)
    \/ \E s \in HandleSlots, n \in 1..MaxLen : Read(s, n)
    \/ \E s \in HandleSlots, b \in SeqsUpTo(Bytes, MaxLen) \ {<<>>} : Write(s, b)
    \/ \E s \in HandleSlots : Release(s)

Spec == Init /\ [][Next]_vars

\* --------------------------------------------------------------- claims
StoreOps == {"create", "destroy", "read_handle", "write_handle", "rw_handle",
             "size", "truncate"}

\* The object `objid`, as the store finds it under the root.
Exists(objid) == object_path(objid) \in DOMAIN files
ContentIn(fs, objid) == fs[object_path(objid)]
Content(objid) == ContentIn(files, objid)

\* Some outstanding handle refers to the file of the live object `objid`.
Outstanding(hs, objid) ==
    \E s \in HandleSlots :
        hs[s].open /\ hs[s].linked /\ hs[s].path = object_path(objid)

\* C1: destroy(id) on an identifier that denotes no live object (never
\* created, or destroyed since) returns NotFound, never Ok.
C1_DestroyAbsentNotFound ==
    (res.op = "destroy" /\ ~res.live) => res.kind = "NotFound"

\* C1 witness: a destroy of an identifier just destroyed has failed.
C1_Witness ==
    /\ res.op = "destroy" /\ ~res.live /\ res.kind = "NotFound"
    /\ live # {}

\* C3: after a create(id) that returned Ok the object exists, its size is 0
\* and reading it yields no bytes, whether id was live before or not.
C3_CreateOkIsEmpty ==
    (res.op = "create" /\ res.kind = "Ok") =>
        /\ Exists(res.objid)
        /\ MetadataLen(files, object_path(res.objid)) = 0
        /\ ReadToEnd(Content(res.objid), 0) = <<>>

\* C3 witness: create returned Ok on a live object that a handle had
\* already written to (its position is past the start).
C3_Witness ==
    /\ res.op = "create" /\ res.kind = "Ok" /\ res.live
    /\ \E s \in HandleSlots :
          /\ handles[s].open /\ handles[s].linked /\ handles[s].write
          /\ handles[s].path = object_path(res.objid)
          /\ handles[s].pos > 0

\* C6: on an identifier that denotes no live object, read_handle,
\* write_handle, rw_handle, size and truncate fail with NotFound and the
\* object does not come into existence.
C6_AbsentNotFound ==
    (res.op \in StoreOps \ {"create", "destroy"} /\ ~res.live) =>
        /\ res.kind = "NotFound"
        /\ ~Exists(res.objid)
        /\ res.objid \notin live
        /\ ~Outstanding(handles, res.objid)

\* C6 witness: a write-mode open of an absent identifier has failed while
\* another object is live.
C6_Witness ==
    /\ res.op = "write_handle" /\ ~res.live /\ res.kind = "NotFound"
    /\ live # {}

\* The decimal name of an identifier below 100, digit by digit.
TwoDigitName(i) == IF i < 10 THEN <<i>> ELSE <<i \div 10, i % 10>>

C2_CreateLiveFails ==
    (res.op = "create" /\ res.live) => res.kind # "Ok"

\* C2, amended: create(id) on a live identifier never reports
\* AlreadyExists: it returns Ok and leaves the object empty, or it fails
\* with a medium error and leaves every object's content unchanged.
C2_CreateLiveOverwrites ==
    [][(res'.op = "create" /\ res'.objid \in live) =>
          \/ /\ res'.kind = "Ok"
             /\ files' = [files EXCEPT ![object_path(res'.objid)] = <<>>]
          \/ /\ res'.kind = "MediumFailure"
             /\ files' = files]_vars

\* C2 witness: create returned Ok on a live object and another object
\* still has content.
C2_Witness ==
    /\ res.op = "create" /\ res.live /\ res.kind = "Ok"
    /\ Content(res.objid) = <<>>
    /\ \E i \in live : Content(i) # <<>>

WroteFromStart(r, hs, objid) ==
    /\ r.op = "write" /\ r.kind = "Ok" /\ r.off = 0
    /\ hs[r.n].by = "write_handle"
    /\ hs[r.n].linked /\ hs[r.n].path = object_path(objid)

\* C5, as stated: after writing b from offset 0 through a write handle,
\* a read handle reads exactly b to the end of the object.
C5_RoundTripExact ==
    \A i \in ObjIds :
        WroteFromStart(res, handles, i) =>
            ReadToEnd(Content(i), 0) = res.data

\* C5, amended: after writing b from offset 0 through a write handle, a
\* read handle reads b followed by the bytes the object already had past
\* Len(b); it reads exactly b when the object was no longer than b.
C5_RoundTripKeepsTail ==
    [][\A i \in ObjIds :
          WroteFromStart(res', handles', i) =>
              LET b == res'.data
                  c == Content(i) IN
              /\ ReadToEnd(ContentIn(files', i), 0) = b \o SubSeq(c, Len(b) + 1, Len(c))
              /\ Len(c) <= Len(b) => ReadToEnd(ContentIn(files', i), 0) = b]_vars

\* C5 witness: the write was shorter than the object it was written to.
C5_Witness ==
    \E i \in ObjIds :
        /\ WroteFromStart(res, handles, i)
        /\ Len(Content(i)) > Len(res.data)

\* C7: a read through a handle from write_handle fails; a write through a
\* handle from read_handle fails and changes no content; reads and writes
\* through a handle from rw_handle succeed.
C7_ModeBoundsAccess ==
    [][res'.op \in {"read", "write"} =>
          LET h == handles'[res'.n] IN
          /\ (res'.op = "read" /\ h.by = "write_handle") => res'.kind # "Ok"
          /\ (res'.op = "write" /\ h.by = "read_handle") =>
                /\ res'.kind # "Ok"
                /\ files' = files
          /\ h.by = "rw_handle" => res'.kind = "Ok"]_vars

\* C7 witness: a write through a handle from read_handle has been refused
\* on an object that has content.
C7_Witness ==
    /\ res.op = "write" /\ res.kind = "BadDescriptor"
    /\ handles[res.n].by = "read_handle" /\ handles[res.n].linked
    /\ files[handles[res.n].path] # <<>>

\* C8: a store operation that returns an error leaves the set of live
\* identifiers and every object's content and length as they were.
C8_FailureChangesNothing ==
    [][(res'.op \in StoreOps /\ res'.kind # "Ok") =>
          /\ files' = files
          /\ live' = live
          /\ handles' = handles]_vars

\* C8 witness: a truncate to another length has failed on the medium and
\* the object has kept its content.
C8_Witness ==
    /\ res.op = "truncate" /\ res.kind = "MediumFailure"
    /\ Len(Content(res.objid)) # res.n
    /\ Content(res.objid) # <<>>

\* C10, as stated: no create(id) returns Ok on a live object while a handle
\* to that object is outstanding.
C10_NoRecreateUnderHandle ==
    ~(res.op = "create" /\ res.kind = "Ok" /\ res.live
        /\ Outstanding(handles, res.objid))

\* C10, amended: an outstanding handle does not stop create(id): on a live
\* object with an outstanding handle create returns Ok and empties the
\* object under the handle, or fails with a medium error; either way the
\* handle stays open on that object with its position unchanged.
C10_RecreateUnderHandle ==
    [][(res'.op = "create" /\ Outstanding(handles, res'.objid)) =>
          /\ res'.kind \in {"Ok", "MediumFailure"}
          /\ handles' = handles
          /\ res'.kind = "Ok" =>
                \A s \in HandleSlots :
                    (handles[s].open /\ handles[s].linked
                        /\ handles[s].path = object_path(res'.objid)) =>
                    files'[handles'[s].path] = <<>>]_vars

\* C10 witness: create returned Ok on a live object while a handle whose
\* position is past the start was outstanding on it.
C10_Witness ==
    /\ res.op = "create" /\ res.kind = "Ok" /\ res.live
    /\ \E s \in HandleSlots :
          /\ handles[s].open /\ handles[s].linked
          /\ handles[s].path = object_path(res.objid)
          /\ handles[s].pos > 0
          /\ files[handles[s].path] = <<>>

====
